---- MODULE Spec2Model ----
(***************************************************************************)
(* A model of universal_min_hash.py: the structural encoding layer that    *)
(* turns a set, a sequence, a rooted nested mapping or a weighted mapping  *)
(* into the token population (or the dense vector) fed to the sketch       *)
(* engine.  The sketch engine (datasketch) is external: a MinHash is       *)
(* represented by the byte strings it was updated with, a weighted sketch  *)
(* by the vector it was computed from.                                     *)
(*                                                                         *)
(* Python values are represented as follows.                               *)
(*   - a str is a sequence of one-character strings;                       *)
(*   - a list / tuple of ints is a sequence of integers;                   *)
(*   - a dict is the sequence of its (key, value) items in iteration       *)
(*     order, the keys pairwise distinct;                                  *)
(*   - a value of a nested mapping is a record: a leaf (an int) or a dict; *)
(*   - a list object that can be aliased lives in `heap`, addressed by a   *)
(*     reference <<thread that made it, serial number>>; one reference,    *)
(*     DefaultKeys, is the list bound once, at function definition, to the *)
(*     default of flatten_tree's parameter `keys`;                         *)
(*   - a numpy vector is its length and its entries at the indices that    *)
(*     were written; every index not written reads 0 (numpy.zeros).        *)
(***************************************************************************)
EXTENDS Integers, Sequences, FiniteSets, TLC

VARIABLES
    encoders,   \* each thread's encoder instance, NoEncoder when it has none
    made,       \* history: the configuration each encoder was constructed with
    heap,       \* the list objects that live, by reference
    last,       \* the main thread's last operation, its arguments and outcome
    stacks,     \* the flatten_tree frames of each worker thread
    calls       \* the hash_data call of each worker thread

vars == <<encoders, made, heap, last, stacks, calls>>

-----------------------------------------------------------------------------
(* Bounds of the explored inputs.                                          *)

MaxSeqLen == 4      \* longest input sequence
MaxElem == 4        \* sequence elements are 1..MaxElem
MaxNodes == 3       \* most (key, value) items in a nested mapping, in total
MaxVal == 2         \* keys and leaves of nested mappings are 1..MaxVal
MaxEntries == 2     \* most items of a weighted mapping
MaxWeight == 2      \* weights are 0..MaxWeight

-----------------------------------------------------------------------------
(* Generic helpers.                                                        *)

Range(s) == {s[i] : i \in DOMAIN s}

RECURSIVE SeqsUpTo(_, _)
SeqsUpTo(S, n) ==
    IF n = 0 THEN {<<>>}
    ELSE LET shorter == SeqsUpTo(S, n - 1)
         IN  shorter \cup {Append(s, x) : s \in {t \in shorter : Len(t) = n - 1}, x \in S}

Choose2(n) == (n * (n - 1)) \div 2

-----------------------------------------------------------------------------
(* Python values.                                                          *)

PyStr(s) == [t |-> "str", s |-> s]
PyFalse == [t |-> "bool", s |-> "False"]

\* x == False, for x a str or a bool
EqFalse(x) == x = PyFalse

DigitChars == <<"0", "1", "2", "3", "4", "5", "6", "7", "8", "9">>

IsDigit(c) == c \in Range(DigitChars)

DigitValue(c) == (CHOOSE i \in DOMAIN DigitChars : DigitChars[i] = c) - 1

\* str(n) of an int
RECURSIVE StrInt(_)
StrInt(n) ==
    IF n < 0 THEN <<"-">> \o StrInt(-n)
    ELSE IF n < 10 THEN <<DigitChars[n + 1]>>
    ELSE StrInt(n \div 10) \o <<DigitChars[(n % 10) + 1]>>

\* An argument of MinHash.update's caller: an int, or a tuple of ints.
PyInt(n) == [t |-> "int", v |-> <<n>>]
PyTuple(s) == [t |-> "tuple", v |-> s]

RECURSIVE JoinRepr(_, _)
JoinRepr(s, i) ==
    IF i > Len(s) THEN <<>>
    ELSE StrInt(s[i]) \o (IF i < Len(s) THEN <<",", " ">> ELSE <<>>) \o JoinRepr(s, i + 1)

\* str(obj): "7" for the int 7, "(1, 2)" for the tuple (1, 2), "(1,)" for (1,)
Str(obj) ==
    IF obj.t = "int" THEN StrInt(obj.v[1])
    ELSE <<"(">> \o JoinRepr(obj.v, 1) \o (IF Len(obj.v) = 1 THEN <<",">> ELSE <<>>) \o <<")">>

\* int(key) of a str: surrounding blanks stripped, an optional sign, then
\* digits, single underscores allowed between digits; anything else is a
\* ValueError.
RECURSIVE StripLeft(_)
StripLeft(s) == IF s # <<>> /\ Head(s) = " " THEN StripLeft(Tail(s)) ELSE s

RECURSIVE StripRight(_)
StripRight(s) ==
    IF s # <<>> /\ s[Len(s)] = " " THEN StripRight(SubSeq(s, 1, Len(s) - 1)) ELSE s

RECURSIVE DigitsValue(_, _)
DigitsValue(s, acc) ==
    IF s = <<>> THEN acc
    ELSE IF Head(s) = "_" THEN DigitsValue(Tail(s), acc)
    ELSE DigitsValue(Tail(s), 10 * acc + DigitValue(Head(s)))

WellFormedDigits(s) ==
    /\ s # <<>>
    /\ IsDigit(s[1]) /\ IsDigit(s[Len(s)])
    /\ \A i \in DOMAIN s : IsDigit(s[i]) \/ s[i] = "_"
    /\ \A i \in 1..(Len(s) - 1) : ~(s[i] = "_" /\ s[i + 1] = "_")

ParseInt(key) ==
    LET body == StripRight(StripLeft(key))
        signed == body # <<>> /\ Head(body) \in {"-", "+"}
        digits == IF signed THEN Tail(body) ELSE body
    IN  IF WellFormedDigits(digits)
        THEN [ok |-> TRUE,
              val |-> IF signed /\ Head(body) = "-"
                      THEN -DigitsValue(digits, 0) ELSE DigitsValue(digits, 0)]
        ELSE [ok |-> FALSE, val |-> 0]

-----------------------------------------------------------------------------
(* Outcomes of a call, and the values hash_data can return.                *)

NoVector == [size |-> 0, data |-> <<>>]

NoValue == [type |-> "none", num_perm |-> 0, updates |-> <<>>, vector |-> NoVector]

\* the empty list []
EmptyList == [type |-> "list", num_perm |-> 0, updates |-> <<>>, vector |-> NoVector]

\* a datasketch.MinHash: its permutation count and the byte strings given to
\* update(), in order
MinHash(num_perm, updates) ==
    [type |-> "MinHash", num_perm |-> num_perm, updates |-> updates, vector |-> NoVector]

\* a datasketch.WeightedMinHash: the sample size and the vector it sketches
WeightedMinHash(sample_size, vector) ==
    [type |-> "WeightedMinHash", num_perm |-> sample_size, updates |-> <<>>,
     vector |-> vector]

Return(v) == [status |-> "return", exc |-> "", value |-> v]
Raise(msg) == [status |-> "raise", exc |-> msg, value |-> NoValue]

IsSketch(v) == v.type \in {"MinHash", "WeightedMinHash"}


-----------------------------------------------------------------------------
(* SimilarityHashing.__init__                                              *)

Ports == 65536
English == 100
Sfc == 10

\* the dict `structures`: structure name -> bound method
Structures ==
    [set |-> "set_hashing", sequence |-> "sequence_hashing", tree |-> "tree_hashing",
     weighted_set |-> "weighted_set_hashing"]

\* the dict `weighted_set_options`
WeightedSetOptions == [ports |-> Ports, english |-> English, sfc |-> Sfc]

\* WeightedMinHashGenerator(dim, sample_size=sample_size)
WeightedMinHashGenerator(dim, sample_size) == [dim |-> dim, sample_size |-> sample_size]

NoGenerator == [dim |-> 0, sample_size |-> 0]

\* An instance: its attributes, and `attrs`, the names of those that are set.
NoEncoder ==
    [attrs |-> {}, structure_name |-> "", structure_function |-> "", num_hash |-> 0,
     weighted_set_option |-> 0, weighted_hash_gen |-> NoGenerator]

InKeys(x, table) == x.t = "str" /\ x.s \in DOMAIN table

\* A plausible slip: the final `else: raise` left out, so that an unknown
\* option leaves the instance without a dimension and a generator.
init_weighted_lenient(base, size, weighted_option) ==
    IF EqFalse(weighted_option)
    THEN [status |-> "raise", exc |-> "need to determine support", self |-> NoEncoder]
    ELSE IF InKeys(weighted_option, WeightedSetOptions)
    THEN [status |-> "return", exc |-> "",
          self |-> [base EXCEPT
              !.attrs = @ \cup {"weighted_set_option", "weighted_hash_gen"},
              !.weighted_set_option = WeightedSetOptions[weighted_option.s],
              !.weighted_hash_gen =
                  WeightedMinHashGenerator(WeightedSetOptions[weighted_option.s], size)]]
    ELSE [status |-> "return", exc |-> "", self |-> base]

\* the body of `if structure == 'weighted_set':`
init_weighted(base, size, weighted_option) ==
    IF EqFalse(weighted_option)
    THEN [status |-> "raise", exc |-> "need to determine support", self |-> NoEncoder]
    ELSE IF InKeys(weighted_option, WeightedSetOptions)
    THEN [status |-> "return", exc |-> "",
          self |-> [base EXCEPT
              !.attrs = @ \cup {"weighted_set_option", "weighted_hash_gen"},
              !.weighted_set_option = WeightedSetOptions[weighted_option.s],
              !.weighted_hash_gen =
                  WeightedMinHashGenerator(WeightedSetOptions[weighted_option.s], size)]]
    ELSE [status |-> "raise", exc |-> "unsupported option", self |-> NoEncoder]

\* Returns the outcome and the instance; the caller gets a reference to the
\* instance only when the constructor returns.
SimilarityHashing_init(structure, size, weighted_option) ==
    IF ~InKeys(structure, Structures)
    THEN [status |-> "raise", exc |-> "Unsupported structure", self |-> NoEncoder]
    ELSE LET base == [attrs |-> {"structure_name", "structure_function", "num_hash"},
                      structure_name |-> structure.s,
                      structure_function |-> Structures[structure.s],
                      num_hash |-> size,
                      weighted_set_option |-> 0,
                      weighted_hash_gen |-> NoGenerator]
         IN  IF structure.s = "weighted_set"
             THEN init_weighted(base, size, weighted_option)
             ELSE [status |-> "return", exc |-> "", self |-> base]

-----------------------------------------------------------------------------
(* The inputs of hash_data.                                                *)

NoData == [form |-> "none", seq |-> <<>>, items |-> <<>>, wmap |-> <<>>]

\* a set, tuple or list of ints, in iteration order
SeqData(s) == [form |-> "seq", seq |-> s, items |-> <<>>, wmap |-> <<>>]

\* a nested mapping: the items of the top-level dict
TreeData(items) == [form |-> "tree", seq |-> <<>>, items |-> items, wmap |-> <<>>]

\* a mapping from str keys to weights: its items, <<key, weight>>
WeightedData(m) == [form |-> "wmap", seq |-> <<>>, items |-> <<>>, wmap |-> m]

\* values of a nested mapping
Leaf(v) == [isdict |-> FALSE, val |-> v, items |-> <<>>]
Dict(items) == [isdict |-> TRUE, val |-> 0, items |-> items]

Keys(items) == [i \in DOMAIN items |-> items[i][1]]
Values(items) == [i \in DOMAIN items |-> items[i][2]]

-----------------------------------------------------------------------------
(* set_hashing, sequence_hashing, weighted_set_hashing                     *)

\* set_hashing: a fresh MinHash(num_perm=self.num_hash), updated with
\* str(obj).encode('utf8') for each obj of data, in iteration order.
set_hashing(self, objs) == MinHash(self.num_hash, [i \in DOMAIN objs |-> Str(objs[i])])

\* A plausible slip: only neighbouring elements paired, zip(s, s[1:]).
Combinations2Adjacent(s) == [i \in 1..(Len(s) - 1) |-> <<s[i], s[i + 1]>>]

\* A plausible slip: the pairs of sorted(s), which forget the order of s.
RECURSIVE Combinations2Sorted(_)
Combinations2Sorted(s) ==
    IF Len(s) < 2 THEN <<>>
    ELSE [i \in 1..(Len(s) - 1) |->
              IF s[1] <= s[i + 1] THEN <<s[1], s[i + 1]>> ELSE <<s[i + 1], s[1]>>]
         \o Combinations2Sorted(Tail(s))

\* A plausible slip: each pair built back to front.
RECURSIVE Combinations2Reversed(_)
Combinations2Reversed(s) ==
    IF Len(s) < 2 THEN <<>>
    ELSE [i \in 1..(Len(s) - 1) |-> <<s[i + 1], s[1]>>] \o Combinations2Reversed(Tail(s))

\* itertools.combinations(s, 2): the pairs in lexicographic order of positions
RECURSIVE Combinations2(_)
Combinations2(s) ==
    IF Len(s) < 2 THEN <<>>
    ELSE [i \in 1..(Len(s) - 1) |-> <<s[1], s[i + 1]>>] \o Combinations2(Tail(s))

AsTuples(pairs) == [i \in DOMAIN pairs |-> PyTuple(pairs[i])]

sequence_hashing(self, data) == set_hashing(self, AsTuples(Combinations2(data)))

\* numpy.zeros(n)
zeros(n) == [size |-> n, data |-> <<>>]

\* vector[i], for 0 <= i < size
At(vector, i) == IF i \in DOMAIN vector.data THEN vector.data[i] ELSE 0

\* A plausible slip: an index already written keeps its first weight.
StoreFirstWins(vector, i, w) ==
    [vector EXCEPT !.data = [j \in (DOMAIN vector.data) \cup {i} |->
                                 IF j \in DOMAIN vector.data THEN vector.data[j] ELSE w]]

Store(vector, i, w) ==
    [vector EXCEPT !.data = [j \in (DOMAIN vector.data) \cup {i} |->
                                 IF j = i THEN w ELSE vector.data[j]]]

\* numpy.put(vector, ind, vals), mode='raise': the indices are taken in
\* order; an index in [-size, 0) counts from the end; any other index
\* outside [0, size) is an IndexError.
RECURSIVE put(_, _, _, _)
put(vector, ind, vals, i) ==
    IF i > Len(ind) THEN [ok |-> TRUE, vector |-> vector]
    ELSE IF ind[i] < -vector.size \/ ind[i] >= vector.size
    THEN [ok |-> FALSE, vector |-> vector]
    ELSE put(Store(vector, IF ind[i] < 0 THEN ind[i] + vector.size ELSE ind[i], vals[i]),
             ind, vals, i + 1)

weighted_set_hashing(self, data) ==
    LET parsed == [i \in DOMAIN data |-> ParseInt(data[i][1])]
    IN  IF \E i \in DOMAIN parsed : ~parsed[i].ok THEN Raise("ValueError")
        ELSE LET r == put(zeros(self.weighted_set_option),
                          [i \in DOMAIN parsed |-> parsed[i].val], Values(data), 1)
             IN  IF ~r.ok THEN Raise("IndexError")
                 ELSE Return(WeightedMinHash(self.weighted_hash_gen.sample_size, r.vector))


-----------------------------------------------------------------------------
(* flatten_tree and tree_hashing                                           *)

\* The reference of the list object that `def flatten_tree(d, keys=[])`
\* binds to `keys` whenever a call passes no second argument.
DefaultKeys == <<"flatten_tree.__defaults__", 0>>

FreshHeap == [r \in {DefaultKeys} |-> <<>>]

\* a reference no live list has; thread is the thread that allocates
FreshRef(h, thread) ==
    <<thread, CHOOSE n \in 1..(Cardinality(DOMAIN h) + 1) : <<thread, n>> \notin DOMAIN h>>

\* A plausible slip: keys.append(k) and passing keys on, instead of keys + [k].
PathExtendInPlace(h, thread, keys, k) ==
    [heap |-> [h EXCEPT ![keys] = Append(@, k)], ref |-> keys]

\* keys + [k]: a new list object; the list `keys` refers to is only read.
PathExtend(h, thread, keys, k) ==
    LET r == FreshRef(h, thread)
    IN  [heap |-> [x \in (DOMAIN h) \cup {r} |-> IF x = r THEN Append(h[keys], k) ELSE h[x]],
         ref |-> r]

\* A plausible slip: the leaf value left out of the branch.
BranchOfKeysOnly(h, keys, k, v) == h[keys] \o <<k>>

\* tuple(keys + [k, v])
BranchOf(h, keys, k, v) == h[keys] \o <<k, v>>

\* The argument list of a finished call is garbage once the call returns,
\* unless the caller still holds it.
Release(h, ref, held) == [x \in (DOMAIN h) \ ({ref} \ held) |-> h[x]]

\* flatten_tree(d, keys): the loop over d.items() from item i on, `result`
\* being the list built so far.  Returns the result and the heap after it.
RECURSIVE flatten_items(_, _, _, _, _, _)
flatten_items(thread, items, i, keys, h, result) ==
    IF i > Len(items) THEN [result |-> result, heap |-> h]
    ELSE LET k == items[i][1]
             v == items[i][2]
         IN  IF v.isdict
             THEN LET ext == PathExtend(h, thread, keys, k)
                      sub == flatten_items(thread, v.items, 1, ext.ref, ext.heap, <<>>)
                  IN  flatten_items(thread, items, i + 1, keys,
                                    Release(sub.heap, ext.ref, DOMAIN h),
                                    result \o sub.result)
             ELSE flatten_items(thread, items, i + 1, keys, h,
                                Append(result, BranchOf(h, keys, k, v.val)))

\* a call of flatten_tree by the main thread, run to its return
flatten_tree(d, keys, h) == flatten_items("main", d, 1, keys, h, <<>>)

\* [pair for branch in list_of_sequences for pair in combinations(branch, 2)]
RECURSIVE ListOfPairs(_)
ListOfPairs(branches) ==
    IF branches = <<>> THEN <<>>
    ELSE Combinations2(Head(branches)) \o ListOfPairs(Tail(branches))

\* A plausible slip: the empty mapping not told apart, so that it is
\* flattened and sketched like a tree.
tree_hashing_no_empty_case(self, h, data) ==
    LET root_lst == Keys(data)
    IN  IF Len(root_lst) > 1
        THEN [out |-> Raise("A tree has only 1 root node!"), heap |-> h]
        ELSE LET flat == flatten_tree(data, DefaultKeys, h)
             IN  [out |-> Return(set_hashing(self, AsTuples(ListOfPairs(flat.result)))),
                  heap |-> flat.heap]

\* Returns the outcome and the heap after the call.
tree_hashing(self, h, data) ==
    LET root_lst == Keys(data)
    IN  IF Len(root_lst) = 0 THEN [out |-> Return(EmptyList), heap |-> h]
        ELSE IF Len(root_lst) > 1
        THEN [out |-> Raise("A tree has only 1 root node!"), heap |-> h]
        ELSE LET flat == flatten_tree(data, DefaultKeys, h)
             IN  [out |-> Return(set_hashing(self, AsTuples(ListOfPairs(flat.result)))),
                  heap |-> flat.heap]

-----------------------------------------------------------------------------
(* hash_data                                                               *)

\* self.structure_function(data): the bound method chosen at construction.
\* Returns the outcome, the instance after the call and the heap after it.
hash_data(self, h, data) ==
    IF self.structure_function = "set_hashing"
    THEN [out |-> Return(set_hashing(self, [i \in DOMAIN data.seq |-> PyInt(data.seq[i])])),
          self |-> self, heap |-> h]
    ELSE IF self.structure_function = "sequence_hashing"
    THEN [out |-> Return(sequence_hashing(self, data.seq)), self |-> self, heap |-> h]
    ELSE IF self.structure_function = "weighted_set_hashing"
    THEN [out |-> weighted_set_hashing(self, data.wmap), self |-> self, heap |-> h]
    ELSE LET r == tree_hashing(self, h, data.items)
         IN  [out |-> r.out, self |-> self, heap |-> r.heap]


-----------------------------------------------------------------------------
(* The explored arguments.                                                 *)

\* structure: the four supported names, an unsupported one, and a non-str
StructureArgs ==
    {PyStr("set"), PyStr("sequence"), PyStr("tree"), PyStr("weighted_set"),
     PyStr("graph"), PyFalse}

\* size: the two permutation counts of the module's own demonstration
SizeArgs == {64, 4096}

\* weighted_option: "None" is the parameter's default (the option left out)
DefaultWeightedOption == PyStr("None")

WeightedOptionArgs ==
    {DefaultWeightedOption, PyFalse, PyStr("ports"), PyStr("english"), PyStr("sfc"),
     PyStr("dns")}

\* iterables of ints
SeqInputs == SeqsUpTo(1..MaxElem, MaxSeqLen)

\* nested mappings with exactly n items in total, at any depth
RECURSIVE DictsOfSize(_)
RECURSIVE ValuesOfSize(_)
ValuesOfSize(n) ==
    (IF n = 0 THEN {Leaf(v) : v \in 1..MaxVal} ELSE {}) \cup {Dict(d) : d \in DictsOfSize(n)}

DictsOfSize(n) ==
    IF n = 0 THEN {<<>>}
    ELSE UNION {UNION {{Append(d, <<k, v>>) :
                            k \in (1..MaxVal) \ Range(Keys(d)),
                            v \in ValuesOfSize(n - 1 - m)} :
                       d \in DictsOfSize(m)} :
                m \in 0..(n - 1)}

TreeInputs == UNION {DictsOfSize(n) : n \in 0..MaxNodes}

\* keys of weighted mappings: in range for every option, two spellings of
\* one index, the dimension of each option, the last index of the smallest
\* and of the largest, negative indices, and a key that is no integer
WeightedKeys ==
    {<<"1">>, <<"0", "1">>, <<"9">>, <<"1", "0">>, <<"1", "0", "0">>,
     <<"6", "5", "5", "3", "5">>, <<"6", "5", "5", "3", "6">>,
     <<"-", "1">>, <<"-", "1", "1">>, <<"x">>}

WeightedInputs ==
    {m \in SeqsUpTo(WeightedKeys \X (1..MaxWeight), MaxEntries) :
        \A i, j \in DOMAIN m : i # j => m[i][1] # m[j][1]}

\* the inputs of the kind an encoder expects
InputsFor(self) ==
    IF self.structure_function \in {"set_hashing", "sequence_hashing"}
    THEN {SeqData(x) : x \in SeqInputs}
    ELSE IF self.structure_function = "tree_hashing"
    THEN {TreeData(x) : x \in TreeInputs}
    ELSE {WeightedData(x) : x \in WeightedInputs}

-----------------------------------------------------------------------------
(* The state machine of one caller: construct, encode, use the result.     *)

Workers == {"t1", "t2"}
Owners == {"main"} \cup Workers

\* The arguments of a constructor call, and whether a hash_data call on the
\* encoder it made has finished since.
NoArgs == [structure |-> PyStr(""), size |-> 0, weighted_option |-> PyStr(""), reused |-> FALSE]

NoLast == [op |-> "none", args |-> NoArgs, data |-> NoData, out |-> Return(NoValue)]

NoCall == [pc |-> "idle", data |-> <<>>, result |-> <<>>, out |-> Return(NoValue)]

Init ==
    /\ encoders = [o \in Owners |-> NoEncoder]
    /\ made = [o \in Owners |-> NoArgs]
    /\ heap = FreshHeap
    /\ last = NoLast
    /\ stacks = [t \in Workers |-> <<>>]
    /\ calls = [t \in Workers |-> NoCall]

\* The configuration that constructor arguments set: the weighted option
\* counts only for the kind weighted_set, the constructor reads it for no
\* other kind.
Configuration(args) ==
    IF args.structure = PyStr("weighted_set") THEN args
    ELSE [args EXCEPT !.weighted_option = DefaultWeightedOption]

\* enc = SimilarityHashing(structure, size, weighted_option)
Construct(structure, size, weighted_option) ==
    /\ last.op = "none"
    /\ encoders["main"] = NoEncoder
    /\ LET r == SimilarityHashing_init(structure, size, weighted_option)
           args == [structure |-> structure, size |-> size,
                    weighted_option |-> weighted_option, reused |-> FALSE]
       IN  /\ encoders' = IF r.status = "return"
                          THEN [encoders EXCEPT !["main"] = r.self] ELSE encoders
           /\ made' = IF r.status = "return"
                      THEN [made EXCEPT !["main"] = Configuration(args)] ELSE made
           /\ last' = [op |-> "init", args |-> args, data |-> NoData,
                       out |-> IF r.status = "return" THEN Return(NoValue) ELSE Raise(r.exc)]
    /\ UNCHANGED <<heap, stacks, calls>>

\* enc.hash_data(data)
HashData(data) ==
    /\ last.op = "none"
    /\ encoders["main"] # NoEncoder
    /\ LET r == hash_data(encoders["main"], heap, data)
       IN  /\ encoders' = [encoders EXCEPT !["main"] = r.self]
           /\ heap' = r.heap
           /\ last' = [op |-> "hash_data", args |-> made["main"], data |-> data, out |-> r.out]
    /\ made' = [made EXCEPT !["main"].reused = TRUE]
    /\ UNCHANGED <<stacks, calls>>

\* the caller is done with the outcome of the last operation
DiscardResult ==
    /\ last.op # "none"
    /\ last' = NoLast
    /\ UNCHANGED <<encoders, made, heap, stacks, calls>>

\* the caller drops its encoder
DropEncoder ==
    /\ last.op = "none"
    /\ encoders["main"] # NoEncoder
    /\ encoders' = [encoders EXCEPT !["main"] = NoEncoder]
    /\ made' = [made EXCEPT !["main"] = NoArgs]
    /\ UNCHANGED <<heap, last, stacks, calls>>

Next ==
    \/ /\ last.op = "none" /\ encoders["main"] = NoEncoder
       /\ \E structure \in StructureArgs, size \in SizeArgs,
             weighted_option \in WeightedOptionArgs :
              Construct(structure, size, weighted_option)
    \/ /\ last.op = "none" /\ encoders["main"] # NoEncoder
       /\ \E data \in InputsFor(encoders["main"]) : HashData(data)
    \/ DiscardResult
    \/ DropEncoder

Spec == Init /\ [][Next]_vars


-----------------------------------------------------------------------------
(* Concurrent tree encodes: two worker threads, each with its own encoder  *)
(* of kind tree, run hash_data step by step.  A step is one iteration of   *)
(* the loop of flatten_tree, or one return from a call of it; the          *)
(* interpreter runs the steps of the threads in any order.  stacks[t] is   *)
(* the stack of flatten_tree frames of thread t, the innermost last; a     *)
(* frame holds the items of d, the position i of the loop, the reference   *)
(* `keys` and the list `result`.                                           *)

Frame(items, keys) == [items |-> items, i |-> 1, keys |-> keys, result |-> <<>>]

Top(t) == stacks[t][Len(stacks[t])]

Push(st, f) == Append(st, f)
Pop(st) == SubSeq(st, 1, Len(st) - 1)

ReplaceTop(st, f) == [st EXCEPT ![Len(st)] = f]

\* the references the frames of every thread hold, the default list included
HeldRefs(sts) == {DefaultKeys} \cup UNION {{sts[t][n].keys : n \in DOMAIN sts[t]} : t \in Workers}

\* the permutation count of each worker's encoder
WorkerSize == [t \in Workers |-> IF t = "t1" THEN 4096 ELSE 64]

WorkerArgs(t) ==
    [structure |-> PyStr("tree"), size |-> WorkerSize[t],
     weighted_option |-> DefaultWeightedOption, reused |-> FALSE]

InitWorkers ==
    /\ encoders = [o \in Owners |->
           IF o \in Workers
           THEN SimilarityHashing_init(PyStr("tree"), WorkerSize[o], DefaultWeightedOption).self
           ELSE NoEncoder]
    /\ made = [o \in Owners |-> IF o \in Workers THEN WorkerArgs(o) ELSE NoArgs]
    /\ heap = FreshHeap
    /\ last = NoLast
    /\ stacks = [t \in Workers |-> <<>>]
    /\ calls = [t \in Workers |-> NoCall]

\* thread t calls hash_data(data): tree_hashing up to the call of flatten_tree
Begin(t, data) ==
    /\ calls[t].pc = "idle"
    /\ LET root_lst == Keys(data)
       IN  IF Len(root_lst) = 0
           THEN /\ calls' = [calls EXCEPT ![t] =
                        [pc |-> "done", data |-> data, result |-> <<>>,
                         out |-> Return(EmptyList)]]
                /\ stacks' = stacks
           ELSE IF Len(root_lst) > 1
           THEN /\ calls' = [calls EXCEPT ![t] =
                        [pc |-> "done", data |-> data, result |-> <<>>,
                         out |-> Raise("A tree has only 1 root node!")]]
                /\ stacks' = stacks
           ELSE /\ calls' = [calls EXCEPT ![t] =
                        [pc |-> "flatten", data |-> data, result |-> <<>>,
                         out |-> Return(NoValue)]]
                /\ stacks' = [stacks EXCEPT ![t] = <<Frame(data, DefaultKeys)>>]
    /\ UNCHANGED <<encoders, made, heap, last>>

\* one iteration of `for k, v in d.items()` in the innermost call of thread t
Item(t) ==
    /\ calls[t].pc = "flatten"
    /\ Top(t).i <= Len(Top(t).items)
    /\ LET f == Top(t)
           k == f.items[f.i][1]
           v == f.items[f.i][2]
       IN  IF v.isdict
           THEN LET ext == PathExtend(heap, t, f.keys, k)
                IN  /\ heap' = ext.heap
                    /\ stacks' = [stacks EXCEPT ![t] = Push(@, Frame(v.items, ext.ref))]
           ELSE /\ heap' = heap
                /\ stacks' = [stacks EXCEPT ![t] = ReplaceTop(@,
                       [f EXCEPT !.i = @ + 1,
                                 !.result = Append(@, BranchOf(heap, f.keys, k, v.val))])]
    /\ UNCHANGED <<encoders, made, last, calls>>

\* `return result` of the innermost call of thread t: into result.extend of
\* the calling frame, or, from the outermost call, into the rest of
\* tree_hashing
ReturnResult(t) ==
    /\ calls[t].pc = "flatten"
    /\ Top(t).i > Len(Top(t).items)
    /\ LET f == Top(t)
           rest == Pop(stacks[t])
       IN  IF rest = <<>>
           THEN /\ stacks' = [stacks EXCEPT ![t] = <<>>]
                /\ heap' = heap
                /\ calls' = [calls EXCEPT ![t] =
                       [pc |-> "done", data |-> calls[t].data, result |-> f.result,
                        out |-> Return(set_hashing(encoders[t],
                                                   AsTuples(ListOfPairs(f.result))))]]
           ELSE LET caller == rest[Len(rest)]
                    after == [stacks EXCEPT ![t] = ReplaceTop(rest,
                                 [caller EXCEPT !.i = @ + 1, !.result = @ \o f.result])]
                IN  /\ stacks' = after
                    /\ heap' = Release(heap, f.keys, HeldRefs(after))
                    /\ calls' = calls
    /\ UNCHANGED <<encoders, made, last>>

\* the caller of thread t is done with the outcome
Finish(t) ==
    /\ calls[t].pc = "done"
    /\ calls' = [calls EXCEPT ![t] = NoCall]
    /\ UNCHANGED <<encoders, made, heap, last, stacks>>

NextWorkers ==
    \/ \E t \in Workers : calls[t].pc = "idle" /\ \E data \in TreeInputs : Begin(t, data)
    \/ \E t \in Workers : Item(t)
    \/ \E t \in Workers : ReturnResult(t)
    \/ \E t \in Workers : Finish(t)

SpecWorkers == InitWorkers /\ [][NextWorkers]_vars

-----------------------------------------------------------------------------
(* Properties of construction and of the error outcomes.                   *)

OnKind(kind) == last.op = "hash_data" /\ encoders["main"].structure_name = kind

\* C1: for an encoder of kind tree, the outcome of hash_data on a mapping is
\* decided by the number of top-level keys: none returns the empty list (no
\* sketch, no error), more than one raises the one-root error and returns no
\* sketch, exactly one returns a sketch, whatever lies under the keys.
C1_TreeOutcomeByRootCount ==
    OnKind("tree") =>
        LET n == Len(last.data.items)
        IN  /\ n = 0 => last.out = Return(EmptyList)
            /\ n > 1 => /\ last.out.status = "raise"
                        /\ last.out.exc = "A tree has only 1 root node!"
                        /\ ~IsSketch(last.out.value)
            /\ n = 1 => last.out.status = "return" /\ last.out.value.type = "MinHash"

\* a single root over an empty mapping and a leaf: still a sketch
C1_Witness ==
    /\ OnKind("tree")
    /\ Len(last.data.items) = 1
    /\ last.data.items[1][2].isdict
    /\ \E i \in DOMAIN last.data.items[1][2].items :
           last.data.items[1][2].items[i][2] = Dict(<<>>)
    /\ last.out.status = "return" /\ last.out.value.type = "MinHash"

KnownKinds == {"set", "sequence", "tree", "weighted_set"}
KnownOptions == {"ports", "english", "sfc"}

BadConfiguration(args) ==
    \/ ~(args.structure.t = "str" /\ args.structure.s \in KnownKinds)
    \/ /\ args.structure = PyStr("weighted_set")
       /\ \/ args.weighted_option = DefaultWeightedOption
          \/ ~(args.weighted_option.t = "str" /\ args.weighted_option.s \in KnownOptions)

\* C2: constructing an encoder fails exactly when the structure kind is none
\* of set, sequence, tree, weighted_set, or the kind is weighted_set and the
\* weighted option is left out or is none of ports, english, sfc; the failure
\* happens in the constructor, so no encoder with such a configuration exists
\* and none reaches hash_data.
C2_ConstructorRejectsExactlyBadConfig ==
    /\ last.op = "init" =>
           /\ (last.out.status = "raise") <=> BadConfiguration(last.args)
           /\ last.out.status = "raise" => encoders["main"] = NoEncoder
    /\ \A o \in Owners : encoders[o] # NoEncoder => ~BadConfiguration(made[o])
    /\ last.op = "hash_data" => ~BadConfiguration(last.args)

\* weighted_set with an unknown option string is refused, no encoder made
C2_Witness ==
    /\ last.op = "init"
    /\ last.args.structure = PyStr("weighted_set")
    /\ last.args.weighted_option = PyStr("dns")
    /\ last.out.status = "raise"
    /\ encoders["main"] = NoEncoder

KeyIndexBad(key, d) ==
    LET p == ParseInt(key) IN ~p.ok \/ p.val < 0 \/ p.val >= d

\* C3: for an encoder of kind weighted_set with dimension d, hash_data fails
\* and returns no sketch whenever some key of the mapping is no integer or
\* parses to an index outside [0, d), every negative index included.
C3_OutOfRangeKeyFails ==
    OnKind("weighted_set") =>
        ((\E i \in DOMAIN last.data.wmap :
              KeyIndexBad(last.data.wmap[i][1], encoders["main"].weighted_set_option))
         => last.out.status = "raise" /\ ~IsSketch(last.out.value))


-----------------------------------------------------------------------------
(* Properties of the token populations and of the weight vector.           *)

\* the number of times x occurs in the sequence s
Count(s, x) == Cardinality({i \in DOMAIN s : s[i] = x})

RECURSIVE Sum(_)
Sum(s) == IF s = <<>> THEN 0 ELSE Head(s) + Sum(Tail(s))

\* the position, in lexicographic order, of the pair of positions i < j of n
Rank(i, j, n) == (i - 1) * n - Choose2(i) + (j - i)

PairToken(a, b) == Str(PyTuple(<<a, b>>))

\* C4: for an encoder of kind sequence and an input of length n, the
\* population given to the set encoding is exactly the C(n,2) pairs
\* (s[i], s[j]) with i < j, one per pair of positions, each in the order of
\* the positions; it is empty for n < 2.
C4_SequencePairPopulation ==
    OnKind("sequence") =>
        LET s == last.data.seq
            n == Len(s)
            tokens == last.out.value.updates
        IN  /\ last.out.status = "return" /\ last.out.value.type = "MinHash"
            /\ Len(tokens) = Choose2(n)
            /\ n < 2 => tokens = <<>>
            /\ \A i, j \in 1..n : i < j => tokens[Rank(i, j, n)] = PairToken(s[i], s[j])

\* a sequence with a repeated element: one pair per pair of positions
C4_Witness ==
    /\ OnKind("sequence")
    /\ last.data.seq = <<2, 1, 2>>
    /\ last.out.value.updates = <<PairToken(2, 1), PairToken(2, 2), PairToken(1, 2)>>

NotFound == [isdict |-> FALSE, val |-> -1, items |-> <<>>]

\* the value reached from the mapping `items` by following the keys of path
RECURSIVE Lookup(_, _)
Lookup(items, path) ==
    LET hit == {i \in DOMAIN items : items[i][1] = path[1]}
    IN  IF hit = {} THEN NotFound
        ELSE LET v == items[CHOOSE i \in hit : TRUE][2]
             IN  IF Len(path) = 1 THEN v
                 ELSE IF v.isdict THEN Lookup(v.items, Tail(path))
                 ELSE NotFound

\* the root-to-leaf paths: the keys from the root down, then the leaf value
RootToLeafPaths(items) ==
    {p \in SeqsUpTo(1..MaxVal, MaxNodes + 1) :
        /\ Len(p) >= 2
        /\ LET v == Lookup(items, SubSeq(p, 1, Len(p) - 1))
           IN  ~v.isdict /\ v.val = p[Len(p)]}

\* how many pairs of positions i < j of the branch b make the token t
PairsMaking(b, t) ==
    Cardinality({ij \in (DOMAIN b) \X (DOMAIN b) :
                    ij[1] < ij[2] /\ PairToken(b[ij[1]], b[ij[2]]) = t})

\* C5: for a single-rooted nested mapping, flatten_tree gives exactly one
\* branch per root-to-leaf path, the keys along the path from the root then
\* the leaf value; and the population of tree_hashing is the pooled multiset,
\* over the branches, of the 2-combinations of each branch in the branch's
\* element order, C(m,2) of them for a branch of m elements.
C5_BranchesAndPooledPairs ==
    (OnKind("tree") /\ Len(last.data.items) = 1) =>
        LET flat == flatten_tree(last.data.items, DefaultKeys, FreshHeap).result
            tokens == last.out.value.updates
        IN  /\ Range(flat) = RootToLeafPaths(last.data.items)
            /\ Cardinality(Range(flat)) = Len(flat)
            /\ Len(tokens) = Sum([b \in DOMAIN flat |-> Choose2(Len(flat[b]))])
            /\ \A t \in Range(tokens) :
                   Count(tokens, t) = Sum([b \in DOMAIN flat |-> PairsMaking(flat[b], t)])

\* two sibling leaves below one inner node, three elements in each branch
C5_Witness ==
    /\ OnKind("tree")
    /\ last.data.items = <<<<1, Dict(<<<<2, Leaf(1)>>, <<1, Leaf(2)>>>>)>>>>
    /\ last.out.value.updates =
           <<PairToken(1, 2), PairToken(1, 1), PairToken(2, 1),
             PairToken(1, 1), PairToken(1, 2), PairToken(1, 2)>>

OptionDimension(name) ==
    CASE name = "ports" -> 65536
      [] name = "english" -> 100
      [] name = "sfc" -> 10

\* C6: for an encoder of kind weighted_set with option dimension d (ports
\* 65536, english 100, sfc 10) and a mapping whose keys all parse to indices
\* in [0, d), the vector given to the weighted sketch generator has length d,
\* holds the weight of each key at the key's index, 0 at every other index,
\* and for two keys of one index the weight of the later key.
C6_WeightVector ==
    (OnKind("weighted_set") /\
     \A i \in DOMAIN last.data.wmap :
         ~KeyIndexBad(last.data.wmap[i][1], OptionDimension(last.args.weighted_option.s))) =>
        LET m == last.data.wmap
            d == OptionDimension(last.args.weighted_option.s)
            vector == last.out.value.vector
            index == [i \in DOMAIN m |-> ParseInt(m[i][1]).val]
        IN  /\ last.out.status = "return" /\ last.out.value.type = "WeightedMinHash"
            /\ vector.size = d
            /\ DOMAIN vector.data \subseteq 0..(d - 1)
            /\ \A i \in DOMAIN m :
                   (\A j \in DOMAIN m : j > i => index[j] # index[i])
                       => At(vector, index[i]) = m[i][2]
            /\ \A x \in (DOMAIN vector.data) \cup {0, 1, 9, d - 1} :
                   x \notin Range(index) => At(vector, x) = 0

\* the keys '1' and '01' name one index: the weight of the later key stays
C6_Witness ==
    /\ OnKind("weighted_set")
    /\ last.args.weighted_option = PyStr("ports")
    /\ last.data.wmap = <<<<<<"1">>, 1>>, <<<<"0", "1">>, 2>>>>
    /\ last.out.value.vector.size = 65536
    /\ At(last.out.value.vector, 1) = 2


-----------------------------------------------------------------------------
(* Sensitivity of the pair populations to edits of the input.              *)

\* The exact Jaccard similarity |A n B| / |A u B| of two token sets, as a
\* fraction; fractions with positive denominators compare by cross products.
Jaccard(A, B) == [num |-> Cardinality(A \cap B), den |-> Cardinality(A \cup B)]

Greater(x, y) == x.num * y.den > y.num * x.den

\* the set of tokens a call of hash_data on this encoder sketches
TokenSet(self, data) == Range(hash_data(self, FreshHeap, data).out.value.updates)

\* the mapping `items` without the leaf found by following the keys of path
RECURSIVE RemoveLeaf(_, _)
RemoveLeaf(items, path) ==
    LET i == CHOOSE i \in DOMAIN items : items[i][1] = path[1]
    IN  IF Len(path) = 1
        THEN SubSeq(items, 1, i - 1) \o SubSeq(items, i + 1, Len(items))
        ELSE [items EXCEPT ![i] =
                  <<items[i][1], Dict(RemoveLeaf(items[i][2].items, Tail(path)))>>]

KeysOfBranch(b) == SubSeq(b, 1, Len(b) - 1)

PairTokens(b) ==
    {PairToken(b[ij[1]], b[ij[2]]) : ij \in {x \in (DOMAIN b) \X (DOMAIN b) : x[1] < x[2]}}

\* the pair tokens that the branch b makes and no other branch of paths does
OwnPairTokens(b, paths) == PairTokens(b) \ UNION {PairTokens(c) : c \in paths \ {b}}

\* C7 (as stated): for every single-rooted tree T and every leaf branch b of
\* T with m elements, the pair-set of T without that leaf overlaps the
\* pair-set of T in exactly C(m,2) fewer pairs than the pair-set of T
\* overlaps itself.
C7_LeafRemovalCostsAllPairs ==
    (OnKind("tree") /\ Len(last.data.items) = 1) =>
        LET T == last.data.items
            whole == TokenSet(encoders["main"], TreeData(T))
        IN  \A b \in RootToLeafPaths(T) :
                LET less == TokenSet(encoders["main"], TreeData(RemoveLeaf(T, KeysOfBranch(b))))
                IN  Cardinality(less \cap whole)
                        = Cardinality(whole \cap whole) - Choose2(Len(b))

\* C7 (amended): the overlap shrinks by exactly the number of distinct pairs
\* that branch b makes and no other branch of T makes, which is at most
\* C(m,2).
C7_LeafRemovalCostsOwnPairs ==
    (OnKind("tree") /\ Len(last.data.items) = 1) =>
        LET T == last.data.items
            whole == Range(last.out.value.updates)
        IN  \A b \in RootToLeafPaths(T) :
                LET less == TokenSet(encoders["main"], TreeData(RemoveLeaf(T, KeysOfBranch(b))))
                    own == OwnPairTokens(b, RootToLeafPaths(T))
                IN  /\ Cardinality(less \cap whole)
                           = Cardinality(whole \cap whole) - Cardinality(own)
                    /\ Cardinality(own) <= Choose2(Len(b))

\* the branches (1, 1, 2) and (1, 2, 2) share the pair (1, 2) and each
\* repeats a pair: of the three pairs of (1, 2, 2) only (2, 2) is its own
C7_Witness ==
    /\ OnKind("tree")
    /\ last.data.items = <<<<1, Dict(<<<<1, Leaf(2)>>, <<2, Leaf(2)>>>>)>>>>
    /\ Cardinality(Range(last.out.value.updates)) = 3
    /\ OwnPairTokens(<<1, 2, 2>>, RootToLeafPaths(last.data.items)) = {PairToken(2, 2)}

Distinct(s) == \A i, j \in DOMAIN s : i # j => s[i] # s[j]

Swap(s, p) == [s EXCEPT ![p] = s[p + 1], ![p + 1] = s[p]]

Reverse(s) == [i \in DOMAIN s |-> s[Len(s) + 1 - i]]

\* C8: for a sequence of n >= 3 distinct elements, the exact Jaccard overlap
\* of its pair population with that of the same sequence is strictly greater
\* than with that of the sequence after one adjacent swap, which is strictly
\* greater than with that of the reversed sequence: the same sequence shares
\* all C(n,2) pairs, a swap changes exactly one pair, the reversal shares
\* none.
C8_SequenceOrderSensitivity ==
    (OnKind("sequence") /\ Distinct(last.data.seq) /\ Len(last.data.seq) >= 3) =>
        LET s == last.data.seq
            self == encoders["main"]
            A == Range(last.out.value.updates)
            same == TokenSet(self, SeqData(s))
            reversed == TokenSet(self, SeqData(Reverse(s)))
        IN  /\ Cardinality(A \cap same) = Choose2(Len(s))
            /\ A \cap reversed = {}
            /\ \A p \in 1..(Len(s) - 1) :
                   LET swapped == TokenSet(self, SeqData(Swap(s, p)))
                   IN  /\ Cardinality(A \cap swapped) = Choose2(Len(s)) - 1
                       /\ Cardinality(swapped \ A) = 1
                       /\ Greater(Jaccard(A, same), Jaccard(A, swapped))
                       /\ Greater(Jaccard(A, swapped), Jaccard(A, reversed))

\* the sequence (1, 2, 3) of the module's demonstration
C8_Witness ==
    /\ OnKind("sequence")
    /\ last.data.seq = <<1, 2, 3>>
    /\ Jaccard(Range(last.out.value.updates),
               TokenSet(encoders["main"], SeqData(<<1, 3, 2>>))) = [num |-> 2, den |-> 4]

-----------------------------------------------------------------------------
(* No state is kept across calls.                                          *)

AsConstructed(args) ==
    SimilarityHashing_init(args.structure, args.size, args.weighted_option).self

\* C9: every hash_data call, whatever its outcome, leaves the configuration
\* of the encoder as the constructor set it, so after any calls on an
\* encoder a call gives the outcome, and the population or vector, that the
\* first call with that input gives on a newly constructed encoder of the
\* same configuration.
C9_NoStateAcrossCalls ==
    /\ \A o \in Owners : encoders[o] # NoEncoder => encoders[o] = AsConstructed(made[o])
    /\ last.op = "hash_data" =>
           last.out = hash_data(AsConstructed(last.args), FreshHeap, last.data).out

\* a tree call that returns a sketch on an encoder used before
C9_Witness ==
    /\ OnKind("tree")
    /\ last.args.reused
    /\ Len(last.data.items) = 1 /\ last.data.items[1][2].isdict
    /\ Len(last.out.value.updates) >= 3


-----------------------------------------------------------------------------
(* The path accumulator of flatten_tree.                                   *)

\* the keys from the root down to the mapping that frame n of thread t walks
PathTo(t, n) == [m \in 1..(n - 1) |-> stacks[t][m].items[stacks[t][m].i][1]]

\* C10: the list bound to the default of `keys` is empty in every reachable
\* state, under any interleaving of flatten_tree calls of concurrent tree
\* encodes on different encoders; every recursive step gets a list of its
\* own, holding the keys of its own path; and no branch holds a key of a
\* sibling path or of another call.
C10_PathAccumulatorNotShared ==
    /\ heap[DefaultKeys] = <<>>
    /\ \A t \in Workers : \A n \in DOMAIN stacks[t] :
           /\ stacks[t][n].keys \in DOMAIN heap
           /\ heap[stacks[t][n].keys] = PathTo(t, n)
           /\ n = 1 <=> stacks[t][n].keys = DefaultKeys
           /\ \A u \in Workers : \A m \in DOMAIN stacks[u] :
                  (stacks[u][m].keys = stacks[t][n].keys /\ n > 1) => (u = t /\ m = n)
           /\ Range(stacks[t][n].result) \subseteq RootToLeafPaths(calls[t].data)
    /\ \A t \in Workers :
           (calls[t].pc = "done" /\ Len(calls[t].data) = 1) =>
               /\ Range(calls[t].result) = RootToLeafPaths(calls[t].data)
               /\ calls[t].out = tree_hashing(encoders[t], FreshHeap, calls[t].data).out

\* both threads are inside a recursive call, below different keys, and one
\* of them has already collected a branch
C10_Witness ==
    /\ Len(stacks["t1"]) = 3 /\ Len(stacks["t2"]) = 2
    /\ heap[stacks["t1"][3].keys] = <<1, 2>>
    /\ heap[stacks["t2"][2].keys] = <<2>>
    /\ stacks["t2"][2].result # <<>>


====
